---- MODULE Spec2Model ----
(***************************************************************************)
(* Model of the job scheduler of src/orchestration/scheduler.py            *)
(* (class ScrapingScheduler): one or more scheduler processes poll the     *)
(* table `queue` of one relational store, start a worker thread per        *)
(* selected job, and the worker writes the outcome of the crawl back.      *)
(* The crawl workers take their egress from the table `proxies` through    *)
(* src/scraper/utils/proxy.py and src/scraper/utils/proxy_selector.py.     *)
(*                                                                         *)
(* Every database statement is one atomic step (a committed transaction    *)
(* of execute_query); the handlers are split where the code makes a new    *)
(* database round trip that another thread or process can interleave with. *)
(* Wall-clock time is abstracted: a dispatch is either within or past the  *)
(* job timeout (`expired`), next_retry_at is NULL, in the future or in the *)
(* past.                                                                   *)
(***************************************************************************)
EXTENDS Integers, Sequences, FiniteSets, TLC

\* ---------------------------------------------------------------- bounds
NumSchedulers == 2      \* scheduler processes sharing the queue
NumJobs == 2            \* rows of the table queue
MaxThreads == 2         \* worker threads alive at once in one process
MaxRetriesBound == 2    \* max_retries of a job is drawn from 1..MaxRetriesBound
MaxRetryCount == 2      \* cap of the column retry_count
MaxFailures == 2        \* the count of failed dispatches per job saturates here
MaxOutages == 1         \* database outages in one behaviour
MaxDowns == 1           \* process stops (shutdown or kill) in one behaviour
NumProxies == 2         \* rows of the table proxies
MaxConsecutive == 3     \* cap of the column consecutive_failures
MaxInUse == 2           \* requests that hold one proxy and have not reported yet
max_failures == 2       \* PROXY_MAX_FAILURES (default 5), scaled down
MaxRequests == 3        \* cap of the columns total_requests and successful_requests
RecursionLimit == 3     \* frames of get_next_proxy the interpreter allows
MaxClock == 4           \* distinct values of last_used_at in one behaviour
cooldown_seconds == 2   \* seconds a breaker stays open (default 120), scaled down
lock_ttl == 2           \* ttl of distributed_lock in seconds (default 10), scaled down
cache_ttl == 2          \* ttl of cache_set in seconds (default 300), scaled down
NumCallers == 2         \* callers of distributed_lock on one name
MaxCounter == 2         \* cap of a counter of incr_counter
MaxParams == 2          \* parameters in the query string of a URL
MaxMarks == 2           \* calls of mark_seen in one behaviour

\* MAX_CONCURRENT_JOBS, read from the environment by __init__
max_concurrent_jobs == 1

Schedulers == 1..NumSchedulers
Jobs == 1..NumJobs
Tids == 1..MaxThreads
Proxies == 1..NumProxies
Callers == 1..NumCallers

\* the values of the slider "Priorité" of the dashboard that the model uses:
\* an urgent job and the default
Priorities == {5, 10}

\* what execute_spider can return: exit code 0; a non-zero exit; a non-zero
\* exit whose stderr holds the word "timeout"; subprocess.TimeoutExpired
Outcomes == {"ok", "nonzero", "nonzero_timeout_text", "timeout"}

VARIABLES
    queue,            \* the table queue: job id -> row
    dbPaused,         \* settings row scheduler_paused = 'true'
    dbUp,             \* the database accepts connections
    outages,          \* database outages the environment may still cause
    is_running,       \* per process: self.is_running
    scheduler_paused, \* per process: self.scheduler_paused
    running_jobs,     \* per process: self.running_jobs, job id -> thread (0: no entry)
    threads,          \* per process: the worker threads, thread id -> frame of _job_worker
    mainpc,           \* per process: where the main thread is
    pending_jobs,     \* per process: the rows process_jobs still has to start
    downs,            \* process stops (shutdown or kill) that may still happen
    failures,         \* per job: dispatches that ended with a non-zero exit
    last_heartbeat,   \* settings row scheduler_last_heartbeat ("absent": no row)
    proxies,          \* the table proxies: proxy id -> row
    in_use,           \* per proxy: requests that acquired it and have not reported
    fetched,          \* what the last fetch_active_proxies returned, and of which module
    selected,         \* what the last acquire_proxy returned (0: None)
    rotation_mode,    \* rotation_mode of the proxy configuration
    redis,            \* the coordination store: key -> value and seconds to live
    callers,          \* per caller of distributed_lock: its frame
    streak,           \* per proxy: failures reported since the last reported success
    window_streak,    \* per proxy: those of them that came within cooldown_seconds of the one before
    since_failure,    \* per proxy: seconds since the last reported failure
    opened_ago,       \* per proxy: seconds since a report last brought window_streak to max_failures (-1: never)
    request,          \* what RotatingProxyMiddleware made of the last request
    marked,           \* every call of mark_seen so far: the URL as given and the job_id
    compared,         \* two URLs and what normalize returned for each
    rotator           \* a ProxyRotator: its failed_proxies and its call of get_next_proxy

\* the state of the proxy engine
proxyVars == <<proxies, in_use, fetched, selected, rotation_mode>>

\* the state of the coordination store and of its callers
storeVars == <<redis, callers, streak, window_streak, since_failure, opened_ago, marked>>

\* what no operation of the scheduler touches
notScheduler == <<proxyVars, storeVars, request, compared, rotator>>

\* the state of the scheduler and of its tables
schedulerVars == <<queue, dbPaused, dbUp, outages, is_running, scheduler_paused,
                   running_jobs, threads, mainpc, pending_jobs, downs, failures,
                   last_heartbeat>>

\* what no operation of the proxy engine touches
notProxy == <<schedulerVars, storeVars, request, compared, rotator>>

\* what no operation on the coordination store touches
notStore == <<schedulerVars, proxyVars, request, compared, rotator>>

vars == <<schedulerVars, proxyVars, storeVars, request, compared, rotator>>

NoThread == [job |-> 0, retry_count |-> 0, pc |-> "none", result |-> "none", expired |-> FALSE]

\* column created_at: every job is inserted in a transaction of its own with
\* DEFAULT NOW() and a serial id, so created_at grows with the id
CreatedAt(j) == j

\* ------------------------------------------------------------ the database

\* update_job_status: the UPDATE it builds, applied to the table q
UpdateJobStatus(q, j, st, err) ==
    [q EXCEPT ![j] =
        [@ EXCEPT !.status = st,
                  !.last_error = IF err # "" THEN err ELSE @,
                  !.retry_count = IF st = "failed"
                                  THEN (IF @ < MaxRetryCount THEN @ + 1 ELSE @)
                                  ELSE @,
                  !.next_retry_at = IF st = "failed" THEN "future" ELSE @]]

\* execute_query(fetch='none'): the statement commits, or the exception is
\* swallowed and nothing is written
ExecuteWrite(q, j, st, err) ==
    IF dbUp THEN UpdateJobStatus(q, j, st, err) ELSE q

\* the WHERE clause of get_pending_jobs
Selectable(q, j) ==
    /\ q[j].status = "pending"
    /\ ~q[j].deleted
    /\ q[j].next_retry_at \in {"null", "past"}

\* ORDER BY priority ASC, retry_count ASC, created_at ASC
SortsBefore(q, a, b) ==
    \/ q[a].priority < q[b].priority
    \/ /\ q[a].priority = q[b].priority
       /\ q[a].retry_count < q[b].retry_count
    \/ /\ q[a].priority = q[b].priority
       /\ q[a].retry_count = q[b].retry_count
       /\ CreatedAt(a) < CreatedAt(b)

RECURSIVE OrderedRows(_, _)
OrderedRows(q, S) ==
    IF S = {} THEN <<>>
    ELSE LET first == CHOOSE a \in S : \A b \in S \ {a} : SortsBefore(q, a, b)
         IN  <<[id |-> first, retry_count |-> q[first].retry_count]>>
             \o OrderedRows(q, S \ {first})

Limit(rows, n) == SubSeq(rows, 1, IF Len(rows) < n THEN Len(rows) ELSE n)

Tracked(rj) == {j \in Jobs : rj[j] # 0}

\* get_pending_jobs, for a process whose running_jobs is rj
GetPendingJobs(q, rj) ==
    LET available_slots == max_concurrent_jobs - Cardinality(Tracked(rj))
    IN  IF available_slots <= 0 \/ ~dbUp THEN <<>>
        ELSE Limit(OrderedRows(q, {j \in Jobs : Selectable(q, j)}), available_slots)

\* ------------------------------------------------------------------- Init

\* a row as the dashboard inserts it ("Job Express": priority 10)
NewJob(m) ==
    [status |-> "pending", retry_count |-> 0, max_retries |-> m, priority |-> 10,
     next_retry_at |-> "null", last_error |-> "", deleted |-> FALSE]

\* a row of an earlier run: finished and soft-deleted after the retention window
OldJob(m) ==
    [status |-> "done", retry_count |-> 0, max_retries |-> m, priority |-> 10,
     next_retry_at |-> "null", last_error |-> "", deleted |-> TRUE]

\* a proxy row as the dashboard inserts it
\* (success_rate is kept as the fraction the UPDATE computes; last_used_at 0
\* is NULL)
NewProxy ==
    [active |-> TRUE, consecutive_failures |-> 0, cooldown_until |-> "null",
     circuit_breaker_status |-> "closed", circuit_breaker_next_attempt |-> "null",
     priority |-> 10, success_rate |-> [num |-> 1, den |-> 1],
     total_requests |-> 0, successful_requests |-> 0, last_used_at |-> 0,
     country_code |-> "null"]

\* no fetch yet
NoFetch == [by |-> "none", ids |-> {}]

\* the proxy engine before any crawl worker has used it
ProxiesIdle ==
    /\ proxies = [p \in Proxies |-> NewProxy]
    /\ in_use = [p \in Proxies |-> 0]
    /\ fetched = NoFetch
    /\ selected = 0
    /\ rotation_mode = "random"

\* A string is the sequence of its character codes. The strings that the
\* URLs of the model are made of: "http", "HTTP"; "ex", "Ex"; "/p", "/P";
\* "a", "b", "1", "2"; "f"
Schemes == {<<>>, <<104, 116, 116, 112>>, <<72, 84, 84, 80>>}
Hosts == {<<101, 120>>, <<69, 120>>}
Paths == {<<>>, <<47, 112>>, <<47, 80>>}
Params == {<< <<97>>, <<49>> >>, << <<98>>, <<50>> >>, << <<97>>, <<50>> >>}
Fragments == {<<>>, <<102>>}

\* the query strings: up to MaxParams parameters, in any order
Queries == UNION {[1..n -> Params] : n \in 0..MaxParams}

\* what urlparse and parse_qsl make of the URLs that the model uses
Urls ==
    [scheme : Schemes, netloc : Hosts, path : Paths, query : Queries, fragment : Fragments]

\* the URLs that the crawl workers mark: http or HTTP, one host, a path in
\* either case, two parameters in either order or none
CrawledUrls ==
    {u \in Urls :
        /\ u.scheme \in {<<104, 116, 116, 112>>, <<72, 84, 84, 80>>}
        /\ u.netloc = <<101, 120>>
        /\ u.path # <<>>
        /\ u.fragment = <<>>
        /\ Len(u.query) \in {0, 2}
        /\ \A i \in DOMAIN u.query : u.query[i][2] # <<50>> \/ u.query[i][1] # <<97>>
        /\ Len(u.query) = 2 => u.query[1] # u.query[2]}

\* job_id of a call of is_seen or mark_seen: 0 stands for None
JobIds == {0} \cup Jobs

\* no URL has been normalized yet
NoComparison == [a |-> <<>>, b |-> <<>>, na |-> <<>>, nb |-> <<>>, done |-> FALSE]

\* the keys of the coordination store that the model follows: one lock, the
\* seen-sets of the scope "global" (0) and of every job, one counter, one
\* cache entry, and per proxy the open flag of its breaker and its failure
\* counter
Keys ==
    ({"lock", "counter", "cache"} \X {0}) \cup ({"seen"} \X JobIds)
        \cup ({"open", "fails"} \X Proxies)

\* a key that does not exist: no members or no value, nothing to live
Absent(k) == [val |-> IF k[1] = "seen" THEN {} ELSE 0, ttl |-> 0]

\* a caller that is not using distributed_lock
NoCaller == [pc |-> "idle", v |-> 0, age |-> 0, token |-> 0, now |-> FALSE, yielded |-> FALSE]

\* a ProxyRotator after construction: no call of get_next_proxy under way,
\* failed_proxies empty (country "null" is None, result 0 is no proxy)
NoCall == [pc |-> "idle", country |-> "null", failed_proxies |-> {}, depth |-> 0, result |-> 0]

\* the coordination store before any process has used it
KeysIdle ==
    /\ redis = [k \in Keys |-> Absent(k)]
    /\ callers = [c \in Callers |-> NoCaller]
    /\ streak = [p \in Proxies |-> 0]
    /\ window_streak = [p \in Proxies |-> 0]
    /\ since_failure = [p \in Proxies |-> cooldown_seconds]
    /\ opened_ago = [p \in Proxies |-> -1]
    /\ marked = {}
    /\ request = "none"
    /\ rotator = NoCall

\* the coordination store and the crawl workers' tools before any use
StoreIdle ==
    /\ KeysIdle
    /\ compared = NoComparison

\* d scheduler processes after construction (d = 0: what a crawl worker run
\* by hand sees), in an environment that may cause o outages and k stops
Processes(d, o, k) ==
    /\ mainpc = [s \in Schedulers |-> IF s <= d THEN "down" ELSE "absent"]
    /\ outages = o
    /\ downs = k
    /\ dbPaused = FALSE
    /\ dbUp = TRUE
    /\ is_running = [s \in Schedulers |-> FALSE]
    /\ scheduler_paused = [s \in Schedulers |-> FALSE]
    /\ running_jobs = [s \in Schedulers |-> [j \in Jobs |-> 0]]
    /\ threads = [s \in Schedulers |-> [t \in Tids |-> NoThread]]
    /\ pending_jobs = [s \in Schedulers |-> <<>>]
    /\ failures = [j \in Jobs |-> 0]
    /\ last_heartbeat = "absent"

\* d processes constructed on a queue holding n new jobs with max_retries = m
SchedulerDeployment(d, n, m, o, k) ==
    /\ queue = [j \in Jobs |-> IF j <= n THEN NewJob(m) ELSE OldJob(m)]
    /\ Processes(d, o, k)

\* the state after construction of d scheduler processes on a queue holding n
\* new jobs with max_retries = m, in an environment that may still cause
\* `o` database outages and `k` process stops. A process that is not deployed
\* stays "absent".
Deployment(d, n, m, o, k) ==
    /\ SchedulerDeployment(d, n, m, o, k)
    /\ ProxiesIdle
    /\ StoreIdle

\* One process and one job, in an environment that causes database outages
\* or process stops (one kind of fault per behaviour).
Init ==
    \E m \in 1..MaxRetriesBound, o \in {0, MaxOutages}, k \in {0, MaxDowns} :
        /\ o = 0 \/ k = 0
        /\ Deployment(1, 1, m, o, k)

\* NumSchedulers processes polling a queue that holds one job, no faults
InitMulti ==
    \E m \in 1..MaxRetriesBound : Deployment(NumSchedulers, 1, m, 0, 0)

\* one process polling a queue that holds NumJobs jobs, no faults
InitJobs ==
    \E m \in 1..MaxRetriesBound : Deployment(1, NumJobs, m, 0, 0)

\* ------------------------------------------------------- the main thread

\* __init__ and run(): a fresh process enters the loop
Start(s) ==
    /\ mainpc[s] = "down"
    /\ mainpc' = [mainpc EXCEPT ![s] = "sleep"]
    /\ is_running' = [is_running EXCEPT ![s] = TRUE]
    /\ scheduler_paused' = [scheduler_paused EXCEPT ![s] = FALSE]
    /\ running_jobs' = [running_jobs EXCEPT ![s] = [j \in Jobs |-> 0]]
    /\ UNCHANGED <<last_heartbeat, notScheduler>>
    /\ UNCHANGED <<queue, dbPaused, dbUp, outages, threads, pending_jobs, downs, failures>>

\* the entries _cleanup_expired_jobs finds past the job timeout
ExpiredJobs(s) ==
    {j \in Tracked(running_jobs[s]) : threads[s][running_jobs[s][j]].expired}

RECURSIVE FailAll(_, _, _)
FailAll(q, S, err) ==
    IF S = {} THEN q
    ELSE LET j == CHOOSE x \in S : TRUE
         IN  FailAll(ExecuteWrite(q, j, "failed", err), S \ {j}, err)

\* _cleanup_expired_jobs: the table after the sweep
CleanupQueue(s) == FailAll(queue, ExpiredJobs(s), "error")
\* _cleanup_expired_jobs: running_jobs after the sweep
CleanupRunning(s) ==
    [j \in Jobs |-> IF j \in ExpiredJobs(s) THEN 0 ELSE running_jobs[s][j]]

\* ReadsPaused with the stored value compared to 'True' as written: the
\* settings row holds 'true', so the flag never reads as set
ReadsPausedCaseSensitive == FALSE

\* what the SELECT of the pause flag makes process_jobs conclude
ReadsPaused == dbUp /\ dbPaused

\* process_jobs up to the for loop: pause check, sweep, SELECT
ProcessJobs(s) ==
    /\ mainpc[s] = "sleep"
    /\ is_running[s]
    /\ mainpc' = [mainpc EXCEPT ![s] = "process_jobs"]
    /\ IF scheduler_paused[s]
       THEN UNCHANGED <<queue, scheduler_paused, running_jobs, pending_jobs>>
       ELSE IF ReadsPaused
       THEN /\ scheduler_paused' = [scheduler_paused EXCEPT ![s] = TRUE]
            /\ UNCHANGED <<queue, running_jobs, pending_jobs>>
       ELSE /\ queue' = CleanupQueue(s)
            /\ running_jobs' = [running_jobs EXCEPT ![s] = CleanupRunning(s)]
            /\ pending_jobs' = [pending_jobs EXCEPT ![s] =
                                  GetPendingJobs(CleanupQueue(s), CleanupRunning(s))]
            /\ UNCHANGED scheduler_paused
    /\ UNCHANGED <<last_heartbeat, notScheduler>>
    /\ UNCHANGED <<dbPaused, dbUp, outages, is_running, threads, downs, failures>>

FreeTids(s) == {t \in Tids : threads[s][t].pc = "none"}

\* one iteration of the for loop of process_jobs: _start_job_thread
StartJob(s) ==
    /\ mainpc[s] = "process_jobs"
    /\ pending_jobs[s] # <<>>
    /\ Cardinality(Tracked(running_jobs[s])) < max_concurrent_jobs
    /\ FreeTids(s) # {}
    /\ LET job == Head(pending_jobs[s])
           t == CHOOSE x \in FreeTids(s) : \A y \in FreeTids(s) : x <= y
       IN  /\ queue' = ExecuteWrite(queue, job.id, "in_progress", "")
           /\ threads' = [threads EXCEPT ![s][t] =
                            [job |-> job.id, retry_count |-> job.retry_count,
                             pc |-> "exec", result |-> "none", expired |-> FALSE]]
           /\ running_jobs' = [running_jobs EXCEPT ![s][job.id] = t]
    /\ pending_jobs' = [pending_jobs EXCEPT ![s] = Tail(@)]
    /\ UNCHANGED <<last_heartbeat, notScheduler>>
    /\ UNCHANGED <<dbPaused, dbUp, outages, is_running, scheduler_paused, mainpc,
                   downs, failures>>

\* process_jobs returns: nothing left to start, or the break of the for loop
FinishPoll(s) ==
    /\ mainpc[s] = "process_jobs"
    /\ \/ pending_jobs[s] = <<>>
       \/ Cardinality(Tracked(running_jobs[s])) >= max_concurrent_jobs
    /\ mainpc' = [mainpc EXCEPT ![s] = "sleep"]
    /\ pending_jobs' = [pending_jobs EXCEPT ![s] = <<>>]
    /\ UNCHANGED <<last_heartbeat, notScheduler>>
    /\ UNCHANGED <<queue, dbPaused, dbUp, outages, is_running, scheduler_paused,
                   running_jobs, threads, downs, failures>>

\* _log_stats and _maintenance_cleanup, the other two periodic tasks of run():
\* a SELECT of counters that is logged, and a DELETE on system_logs. Neither
\* writes the queue, the settings or the state of the process.
LogStats(s) ==
    /\ mainpc[s] = "sleep"
    /\ is_running[s]
    /\ UNCHANGED vars

\* KeyboardInterrupt in run(): _shutdown, which ends in stop_all_jobs when
\* workers are still tracked after the wait
Shutdown(s) ==
    /\ mainpc[s] = "sleep"
    /\ is_running[s]
    /\ downs > 0
    /\ downs' = downs - 1
    /\ is_running' = [is_running EXCEPT ![s] = FALSE]
    /\ mainpc' = [mainpc EXCEPT ![s] = "stopped"]
    /\ queue' = FailAll(queue, Tracked(running_jobs[s]), "error")
    /\ running_jobs' = [running_jobs EXCEPT ![s] = [j \in Jobs |-> 0]]
    /\ UNCHANGED <<last_heartbeat, notScheduler>>
    /\ UNCHANGED <<dbPaused, dbUp, outages, scheduler_paused, threads, pending_jobs,
                   failures>>

\* the process ends (exit after _shutdown, a crash, a kill): its daemon
\* threads and its memory are gone
Kill(s) ==
    /\ mainpc[s] \notin {"down", "absent"}
    /\ IF mainpc[s] = "stopped"
       THEN downs' = downs
       ELSE downs > 0 /\ downs' = downs - 1
    /\ mainpc' = [mainpc EXCEPT ![s] = "down"]
    /\ is_running' = [is_running EXCEPT ![s] = FALSE]
    /\ scheduler_paused' = [scheduler_paused EXCEPT ![s] = FALSE]
    /\ running_jobs' = [running_jobs EXCEPT ![s] = [j \in Jobs |-> 0]]
    /\ threads' = [threads EXCEPT ![s] = [t \in Tids |-> NoThread]]
    /\ pending_jobs' = [pending_jobs EXCEPT ![s] = <<>>]
    /\ UNCHANGED <<last_heartbeat, notScheduler>>
    /\ UNCHANGED <<queue, dbPaused, dbUp, outages, failures>>

\* ----------------------------------------------------- the worker threads

\* execute_spider returns
WorkerExec(s, t, o) ==
    /\ threads[s][t].pc = "exec"
    /\ o = "timeout" => threads[s][t].expired
    /\ LET j == threads[s][t].job
       IN  IF o \in {"nonzero", "nonzero_timeout_text"}
           THEN failures' = [failures EXCEPT ![j] = IF @ < MaxFailures THEN @ + 1 ELSE @]
           ELSE UNCHANGED failures
    /\ threads' = [threads EXCEPT ![s][t].pc = "write", ![s][t].result = o]
    /\ UNCHANGED <<last_heartbeat, notScheduler>>
    /\ UNCHANGED <<queue, dbPaused, dbUp, outages, is_running, scheduler_paused,
                   running_jobs, mainpc, pending_jobs, downs>>

\* 'timeout' in str(result['error']).lower()
ErrorHasTimeout(o) == o \in {"timeout", "nonzero_timeout_text"}

\* should_retry of _job_worker, from the row as it was selected
ShouldRetry(th) ==
    /\ th.retry_count < queue[th.job].max_retries
    /\ ~ErrorHasTimeout(th.result)

\* the status _job_worker writes for the result of execute_spider
OutcomeStatus(th) ==
    IF th.result = "ok" THEN "done"
    ELSE IF ShouldRetry(th) THEN "pending" ELSE "failed"

OutcomeError(th) == IF th.result = "ok" THEN "" ELSE "error"

\* _job_worker: update_job_status with the outcome
WorkerWrite(s, t) ==
    /\ threads[s][t].pc = "write"
    /\ queue' = ExecuteWrite(queue, threads[s][t].job,
                             OutcomeStatus(threads[s][t]), OutcomeError(threads[s][t]))
    /\ threads' = [threads EXCEPT ![s][t].pc = "finally", ![s][t].result = "none",
                                   ![s][t].retry_count = 0]
    /\ UNCHANGED <<last_heartbeat, notScheduler>>
    /\ UNCHANGED <<dbPaused, dbUp, outages, is_running, scheduler_paused,
                   running_jobs, mainpc, pending_jobs, downs, failures>>

\* _job_worker, finally: del self.running_jobs[job_id], and the thread ends
WorkerFinally(s, t) ==
    /\ threads[s][t].pc = "finally"
    /\ running_jobs' = [running_jobs EXCEPT ![s][threads[s][t].job] = 0]
    /\ threads' = [threads EXCEPT ![s][t] = NoThread]
    /\ UNCHANGED <<last_heartbeat, notScheduler>>
    /\ UNCHANGED <<queue, dbPaused, dbUp, outages, is_running, scheduler_paused,
                   mainpc, pending_jobs, downs, failures>>

\* ------------------------------------------------------- the environment

\* time passes: a dispatch is now older than job_timeout
Expire(s, t) ==
    /\ threads[s][t].pc # "none"
    /\ ~threads[s][t].expired
    /\ threads[s][t].pc = "exec" \/ running_jobs[s][threads[s][t].job] = t
    /\ threads' = [threads EXCEPT ![s][t].expired = TRUE]
    /\ UNCHANGED <<last_heartbeat, notScheduler>>
    /\ UNCHANGED <<queue, dbPaused, dbUp, outages, is_running, scheduler_paused,
                   running_jobs, mainpc, pending_jobs, downs, failures>>

\* time passes: next_retry_at <= NOW()
RetryDue(j) ==
    /\ queue[j].next_retry_at = "future"
    /\ queue' = [queue EXCEPT ![j].next_retry_at = "past"]
    /\ UNCHANGED <<last_heartbeat, notScheduler>>
    /\ UNCHANGED <<dbPaused, dbUp, outages, is_running, scheduler_paused,
                   running_jobs, threads, mainpc, pending_jobs, downs, failures>>

\* the operator flips the settings row scheduler_paused
SetPauseFlag ==
    /\ dbUp
    /\ dbPaused' = ~dbPaused
    /\ UNCHANGED <<last_heartbeat, notScheduler>>
    /\ UNCHANGED <<queue, dbUp, outages, is_running, scheduler_paused,
                   running_jobs, threads, mainpc, pending_jobs, downs, failures>>

\* the dashboard soft-deletes a terminal job
SoftDelete(j) ==
    /\ dbUp
    /\ queue[j].status \in {"done", "failed"}
    /\ ~queue[j].deleted
    /\ queue' = [queue EXCEPT ![j].deleted = TRUE]
    /\ UNCHANGED <<last_heartbeat, notScheduler>>
    /\ UNCHANGED <<dbPaused, dbUp, outages, is_running, scheduler_paused,
                   running_jobs, threads, mainpc, pending_jobs, downs, failures>>

DbDown ==
    /\ dbUp
    /\ outages > 0
    /\ dbUp' = FALSE
    /\ outages' = outages - 1
    /\ UNCHANGED <<last_heartbeat, notScheduler>>
    /\ UNCHANGED <<queue, dbPaused, is_running, scheduler_paused,
                   running_jobs, threads, mainpc, pending_jobs, downs, failures>>

DbBack ==
    /\ ~dbUp
    /\ dbUp' = TRUE
    /\ UNCHANGED <<last_heartbeat, notScheduler>>
    /\ UNCHANGED <<queue, dbPaused, outages, is_running, scheduler_paused,
                   running_jobs, threads, mainpc, pending_jobs, downs, failures>>

\* ------------------------------------------------------- the proxy engine

\* a timestamp column, relative to NOW()
Times == {"null", "past", "future"}

BreakerStatuses == {"closed", "half_open", "open"}

\* the rows the table proxies can hold
ProxyRows ==
    {[NewProxy EXCEPT !.active = a, !.consecutive_failures = n,
                      !.cooldown_until = c, !.circuit_breaker_status = b,
                      !.circuit_breaker_next_attempt = t] :
        a \in BOOLEAN, n \in 0..MaxConsecutive, c \in Times,
        b \in BreakerStatuses, t \in Times}

\* CooldownOver without the IS NULL test: in SQL, NULL < NOW() is not true
CooldownOverNotNull(row) == row.cooldown_until = "past"

\* cooldown_until IS NULL OR cooldown_until < NOW()
CooldownOver(row) == row.cooldown_until \in {"null", "past"}

\* circuit_breaker_status != 'open' OR circuit_breaker_next_attempt < NOW()
\* (a NULL circuit_breaker_next_attempt compares as not true)
BreakerAdmits(row) ==
    \/ row.circuit_breaker_status # "open"
    \/ row.circuit_breaker_next_attempt = "past"

\* the ids of the rows the SELECT of proxy.fetch_active_proxies returns
ActiveProxies(px) ==
    {p \in Proxies : px[p].active /\ CooldownOver(px[p])}

\* the ids of the rows the SELECT of proxy_selector.fetch_active_proxies returns
ActiveProxiesSelector(px) ==
    {p \in Proxies : px[p].active /\ CooldownOver(px[p]) /\ BreakerAdmits(px[p])}

\* can_use_proxy
CanUseProxy(row) == ~(row.consecutive_failures >= max_failures)

\* usable_proxies of select_proxy_simple
UsableProxies(px) == {p \in ActiveProxies(px) : CanUseProxy(px[p])}

\* proxy.fetch_active_proxies
FetchActiveProxies ==
    /\ fetched' = [by |-> "proxy", ids |-> ActiveProxies(proxies)]
    /\ UNCHANGED <<proxies, in_use, selected, rotation_mode>>
    /\ UNCHANGED notProxy

\* proxy_selector.fetch_active_proxies
FetchActiveProxiesSelector ==
    /\ fetched' = [by |-> "proxy_selector", ids |-> ActiveProxiesSelector(proxies)]
    /\ UNCHANGED <<proxies, in_use, selected, rotation_mode>>
    /\ UNCHANGED notProxy

\* x < y for two values of success_rate
RateLess(x, y) == x.num * y.den < y.num * x.den

\* ORDER BY priority ASC, COALESCE(success_rate, 1.0) DESC,
\* COALESCE(response_time_ms, 0) ASC, COALESCE(last_used_at, '1970-01-01') ASC
\* (no report carries a response time, so response_time_ms stays NULL)
FetchBefore(px, a, b) ==
    \/ px[a].priority < px[b].priority
    \/ /\ px[a].priority = px[b].priority
       /\ RateLess(px[b].success_rate, px[a].success_rate)
    \/ /\ px[a].priority = px[b].priority
       /\ ~RateLess(px[b].success_rate, px[a].success_rate)
       /\ ~RateLess(px[a].success_rate, px[b].success_rate)
       /\ px[a].last_used_at < px[b].last_used_at

\* the proxies that can be usable_proxies[0]: the SELECT may return rows that
\* are equal in every ORDER BY column in any order
FirstUsable(px) ==
    {p \in UsableProxies(px) : \A q \in UsableProxies(px) : ~FetchBefore(px, q, p)}

\* select_proxy_simple: random.choice(usable_proxies) in mode "random",
\* usable_proxies[0] in the modes it does not know (round_robin,
\* weighted_random, sticky_session)
SelectProxySimple(px, mode) ==
    IF mode = "random" THEN UsableProxies(px) ELSE FirstUsable(px)

\* NOW() of an UPDATE: later than every last_used_at stored so far
Now(px) ==
    1 + (CHOOSE n \in 0..MaxClock :
            /\ \E p \in Proxies : px[p].last_used_at = n
            /\ \A p \in Proxies : px[p].last_used_at <= n)

\* update_proxy_usage
UpdateProxyUsage(px, p) ==
    [px EXCEPT ![p].last_used_at = Now(px), ![p].total_requests = @ + 1]

\* acquire_proxy -> select_proxy: fetch, select_proxy_simple, update_proxy_usage;
\* None when no proxy is usable. fetch_active_proxies returns [] when the
\* database fails (dbOk false); update_proxy_usage swallows its own failure
\* (usageOk false) and the selected proxy is returned all the same.
AcquireProxyWith(dbOk, usageOk) ==
    /\ fetched' = [by |-> "proxy", ids |-> IF dbOk THEN ActiveProxies(proxies) ELSE {}]
    /\ IF ~dbOk \/ UsableProxies(proxies) = {}
       THEN /\ selected' = 0
            /\ UNCHANGED <<in_use, proxies>>
       ELSE \E p \in SelectProxySimple(proxies, rotation_mode) :
              /\ in_use[p] < MaxInUse
              /\ proxies[p].total_requests < MaxRequests
              /\ Now(proxies) <= MaxClock
              /\ selected' = p
              /\ in_use' = [in_use EXCEPT ![p] = @ + 1]
              /\ proxies' = IF usageOk THEN UpdateProxyUsage(proxies, p) ELSE proxies
    /\ UNCHANGED rotation_mode
    /\ UNCHANGED notProxy

\* acquire_proxy with the database reachable
AcquireProxy == AcquireProxyWith(TRUE, TRUE)

\* report_proxy_result, the UPDATE of either branch. Every expression of a
\* SET list reads the row as it was before the UPDATE: the CASE of the
\* failure branch reads the old consecutive_failures, success_rate is the
\* quotient of the old counters.
ReportProxyResult(p, success) ==
    /\ in_use[p] > 0
    /\ success => proxies[p].successful_requests < MaxRequests
    /\ in_use' = [in_use EXCEPT ![p] = @ - 1]
    /\ proxies' = [proxies EXCEPT ![p] =
          IF success
          THEN [@ EXCEPT !.consecutive_failures = 0,
                         !.successful_requests = @ + 1,
                         !.success_rate =
                             IF proxies[p].total_requests > 0
                             THEN [num |-> proxies[p].successful_requests,
                                   den |-> proxies[p].total_requests]
                             ELSE [num |-> 1, den |-> 1]]
          ELSE [@ EXCEPT !.consecutive_failures =
                             IF @ < MaxConsecutive THEN @ + 1 ELSE @,
                         !.success_rate =
                             IF proxies[p].total_requests > 0
                             THEN [num |-> proxies[p].successful_requests,
                                   den |-> proxies[p].total_requests]
                             ELSE [num |-> 1, den |-> 2],
                         !.cooldown_until =
                             IF proxies[p].consecutive_failures >= max_failures
                             THEN "future" ELSE @]]
    /\ UNCHANGED <<fetched, selected, rotation_mode>>
    /\ UNCHANGED notProxy

\* the dashboard's "Reset Stats": total_requests = 0, success_rate = 1.0 on
\* every row (successful_requests is not in the SET list)
ResetStats ==
    /\ proxies' = [p \in Proxies |->
                     [proxies[p] EXCEPT !.total_requests = 0,
                                        !.success_rate = [num |-> 1, den |-> 1]]]
    /\ UNCHANGED <<in_use, fetched, selected, rotation_mode>>
    /\ UNCHANGED notProxy

\* time passes: cooldown_until < NOW()
CooldownElapses(p) ==
    /\ proxies[p].cooldown_until = "future"
    /\ proxies' = [proxies EXCEPT ![p].cooldown_until = "past"]
    /\ UNCHANGED <<in_use, fetched, selected, rotation_mode>>
    /\ UNCHANGED notProxy

\* time passes: circuit_breaker_next_attempt < NOW()
AttemptDue(p) ==
    /\ proxies[p].circuit_breaker_next_attempt = "future"
    /\ proxies' = [proxies EXCEPT ![p].circuit_breaker_next_attempt = "past"]
    /\ UNCHANGED <<in_use, fetched, selected, rotation_mode>>
    /\ UNCHANGED notProxy

\* ------------------------------------------------- the coordination store

\* TTL key: -2 when the key does not exist, -1 when it never expires
Ttl(r, k) == IF r[k].ttl = 0 THEN -2 ELSE r[k].ttl

\* SET key value EX seconds
SetEx(r, k, value, ex) == [r EXCEPT ![k] = [val |-> value, ttl |-> ex]]

\* DEL key
Delete(r, k) == [r EXCEPT ![k] = Absent(k)]

\* INCRBY key amount: a key that did not exist is created without expiry
IncrBy(r, k, amount) ==
    [r EXCEPT ![k] = [val |-> @.val + amount,
                      ttl |-> IF @.ttl = 0 THEN -1 ELSE @.ttl]]

\* EXPIRE key seconds
ExpireKey(r, k, ex) == IF r[k].ttl = 0 THEN r ELSE [r EXCEPT ![k].ttl = ex]

\* SADD key member: a set that did not exist is created without expiry
Sadd(r, k, member) ==
    [r EXCEPT ![k] = [val |-> @.val \cup {member},
                      ttl |-> IF @.ttl = 0 THEN -1 ELSE @.ttl]]

\* circuit_breaker.is_open
IsOpen(r, key) == Ttl(r, <<"open", key>>) > 0

\* circuit_breaker.open_cb
OpenCb(r, key, cooldown) == SetEx(r, <<"open", key>>, 1, cooldown)

ReachesThresholdStrict(n, threshold) == n > threshold

\* the test of circuit_breaker.record_failure
ReachesThreshold(n, threshold) == n >= threshold

\* circuit_breaker.record_failure
RecordFailure(r, key, n, threshold, cooldown) ==
    IF ReachesThreshold(n, threshold) THEN OpenCb(r, key, cooldown) ELSE r

CanUseAlways(r, p) == TRUE

\* proxy_failover.can_use
CanUse(r, p) == ~IsOpen(r, p)

CanUseOrAllow(r, p, storeOk) == storeOk => CanUse(r, p)

\* the filter loop of proxy_selector.select_proxy: a proxy whose can_use
\* raises (the store fails, storeOk false) is skipped
CanUseOrSkip(r, p, storeOk) == storeOk /\ CanUse(r, p)

\* usable_proxies of proxy_selector.select_proxy: the rows of
\* fetch_active_proxies ([] when the database fails) that pass the filter
UsableSelector(px, r, dbOk, storeOk) ==
    {p \in (IF dbOk THEN ActiveProxiesSelector(px) ELSE {}) : CanUseOrSkip(r, p, storeOk)}

\* proxy_rotation.choose: whatever the strategy, the proxy it returns is one
\* of the candidates it was given
Choose(candidates, mode) == candidates

\* the body of proxy_selector.select_proxy: fetch, filter by can_use, choose,
\* update_proxy_usage (whose failure is logged, the proxy is returned all the
\* same); None when nothing is fetched or nothing passes the filter
SelectProxyCall(dbOk, storeOk, usageOk) ==
    LET usable == UsableSelector(proxies, redis, dbOk, storeOk)
    IN  /\ fetched' = [by |-> "select_proxy", ids |-> usable]
        /\ IF usable = {}
           THEN /\ selected' = 0
                /\ UNCHANGED proxies
           ELSE \E p \in Choose(usable, rotation_mode) :
                  /\ selected' = p
                  /\ IF usageOk
                     THEN /\ proxies[p].total_requests < MaxRequests
                          /\ Now(proxies) <= MaxClock
                          /\ proxies' = UpdateProxyUsage(proxies, p)
                     ELSE UNCHANGED proxies
        /\ UNCHANGED <<in_use, rotation_mode>>
        /\ UNCHANGED <<schedulerVars, storeVars>>

\* proxy_selector.select_proxy, called by a crawl worker
SelectProxy(dbOk, storeOk, usageOk) ==
    /\ SelectProxyCall(dbOk, storeOk, usageOk)
    /\ UNCHANGED <<request, compared, rotator>>

\* RotatingProxyMiddleware.process_request: a request marked no_proxy is
\* left alone; any other goes on without a proxy when select_proxy returns
\* None and through the selected proxy otherwise
ProcessRequest(no_proxy, dbOk, storeOk, usageOk) ==
    /\ IF no_proxy
       THEN /\ request' = "no_proxy"
            /\ UNCHANGED <<schedulerVars, proxyVars, storeVars>>
       ELSE /\ SelectProxyCall(dbOk, storeOk, usageOk)
            /\ request' = IF selected' = 0 THEN "direct" ELSE "proxied"
    /\ UNCHANGED <<compared, rotator>>

\* proxy_failover.report_result, called with max_failures and
\* cooldown_seconds of the configuration. The ghost variables follow the
\* reports and the time between them, not the store.
ReportResult(p, success) ==
    /\ IF success
       THEN /\ redis' = Delete(redis, <<"fails", p>>)
            /\ streak' = [streak EXCEPT ![p] = 0]
            /\ window_streak' = [window_streak EXCEPT ![p] = 0]
            /\ UNCHANGED <<since_failure, opened_ago>>
       ELSE /\ streak[p] < MaxConsecutive
            /\ LET counted == IncrBy(redis, <<"fails", p>>, 1)
                   n == counted[<<"fails", p>>].val
                   windowed == ExpireKey(counted, <<"fails", p>>, cooldown_seconds)
                   in_window == IF since_failure[p] < cooldown_seconds
                                THEN window_streak[p] + 1 ELSE 1
               IN  /\ redis' = RecordFailure(windowed, p, n, max_failures, cooldown_seconds)
                   /\ window_streak' = [window_streak EXCEPT ![p] = in_window]
                   /\ opened_ago' = [opened_ago EXCEPT
                                        ![p] = IF in_window >= max_failures THEN 0 ELSE @]
            /\ streak' = [streak EXCEPT ![p] = @ + 1]
            /\ since_failure' = [since_failure EXCEPT ![p] = 0]
    /\ UNCHANGED callers
    /\ UNCHANGED <<marked, notStore>>

\* the key of the lock
LockKey == <<"lock", 0>>

\* str(time.time()): the reading of the clock. A call made while the clock
\* still shows the reading of another call gets that reading; any other
\* call gets a reading no call and no key holds.
Time(cs, r) ==
    IF \E d \in Callers : cs[d].now
    THEN cs[CHOOSE d \in Callers : cs[d].now].token
    ELSE CHOOSE n \in 1..(NumCallers + 1) :
            /\ (r[LockKey].ttl # 0 => r[LockKey].val # n)
            /\ \A d \in Callers : cs[d].pc # "idle" => cs[d].token # n

\* distributed_lock up to the yield: token = str(time.time()), then
\* SET key token NX EX ttl; yield True when the key was set, False otherwise
LockAcquire(c) ==
    /\ callers[c].pc = "idle"
    /\ LET token == Time(callers, redis)
           got == redis[LockKey].ttl = 0
       IN  /\ redis' = IF got THEN SetEx(redis, LockKey, token, lock_ttl) ELSE redis
           /\ callers' = [callers EXCEPT ![c] =
                             [pc |-> IF got THEN "inside" ELSE "refused", v |-> 0,
                              age |-> 0, token |-> token, now |-> TRUE, yielded |-> got]]
    /\ UNCHANGED <<streak, window_streak, since_failure, opened_ago>>
    /\ UNCHANGED <<marked, notStore>>

\* the with block ends (after yield True or yield False) and the finally
\* clause reads the key: v = r.get(key)
LockLeave(c) ==
    /\ callers[c].pc \in {"inside", "refused"}
    /\ callers' = [callers EXCEPT ![c].pc = "release", ![c].v = redis[LockKey].val]
    /\ UNCHANGED <<redis, streak, window_streak, since_failure, opened_ago>>
    /\ UNCHANGED <<marked, notStore>>

\* the test of the finally clause: v == token
ReleaseMatches(v, token) == v = token

\* the rest of the finally clause: if v == token: r.delete(key)
LockRelease(c) ==
    /\ callers[c].pc = "release"
    /\ redis' = IF ReleaseMatches(callers[c].v, callers[c].token) THEN Delete(redis, LockKey) ELSE redis
    /\ callers' = [callers EXCEPT ![c] = NoCaller]
    /\ UNCHANGED <<streak, window_streak, since_failure, opened_ago>>
    /\ UNCHANGED <<marked, notStore>>

\* the process of a caller dies or hangs inside the with block: its finally
\* clause never runs
LockCrash(c) ==
    /\ callers[c].pc = "inside"
    /\ callers' = [callers EXCEPT ![c].pc = "crashed"]
    /\ UNCHANGED <<redis, streak, window_streak, since_failure, opened_ago>>
    /\ UNCHANGED <<marked, notStore>>

\* the clock moves on to its next reading
TimePasses ==
    /\ \E c \in Callers : callers[c].now
    /\ callers' = [c \in Callers |-> [callers[c] EXCEPT !.now = FALSE]]
    /\ UNCHANGED <<redis, streak, window_streak, since_failure, opened_ago>>
    /\ UNCHANGED <<marked, notStore>>

LowerNot(text) == text

\* str.lower
Lower(text) == [i \in DOMAIN text |-> IF text[i] \in 65..90 THEN text[i] + 32 ELSE text[i]]

\* the order of Python on strings
RECURSIVE StrLess(_, _)
StrLess(x, y) ==
    IF y = <<>> THEN FALSE
    ELSE IF x = <<>> THEN TRUE
    ELSE IF Head(x) # Head(y) THEN Head(x) < Head(y)
    ELSE StrLess(Tail(x), Tail(y))

\* the order of Python on (key, value) tuples, equal tuples included
PairLeq(x, y) == StrLess(x[1], y[1]) \/ (x[1] = y[1] /\ ~StrLess(y[2], x[2]))

RECURSIVE Insert(_, _)
Insert(pair, sorted) ==
    IF sorted = <<>> THEN <<pair>>
    ELSE IF PairLeq(pair, Head(sorted)) THEN <<pair>> \o sorted
    ELSE <<Head(sorted)>> \o Insert(pair, Tail(sorted))

\* sorted(parse_qsl(query))
RECURSIVE SortedParams(_)
SortedParams(query) ==
    IF query = <<>> THEN <<>> ELSE Insert(Head(query), SortedParams(Tail(query)))

\* urlencode: key=value joined by "&"; the keys and values of the model are
\* letters and digits, which it leaves as they are
RECURSIVE Urlencode(_)
Urlencode(query) ==
    IF query = <<>> THEN <<>>
    ELSE query[1][1] \o <<61>> \o query[1][2]
           \o (IF Len(query) = 1 THEN <<>> ELSE <<38>> \o Urlencode(Tail(query)))

\* urlunparse((scheme, netloc, path, "", query, "")) for a netloc that is not
\* empty: scheme "://" netloc path, then "?" query when there is one
Urlunparse(scheme, netloc, path, query) ==
    scheme \o <<58, 47, 47>> \o netloc \o path
        \o (IF query = <<>> THEN <<>> ELSE <<63>> \o query)

\* url_normalizer.normalize
Normalize(u) ==
    Urlunparse(IF Lower(u.scheme) = <<>> THEN <<104, 116, 116, 112>> ELSE Lower(u.scheme),
               Lower(u.netloc),
               IF u.path = <<>> THEN <<47>> ELSE u.path,
               Urlencode(SortedParams(u.query)))

\* a crawl worker normalizes the two URLs it has to compare
NormalizeBoth ==
    /\ ~compared.done
    /\ compared' = [compared EXCEPT !.na = Normalize(compared.a),
                                    !.nb = Normalize(compared.b),
                                    !.done = TRUE]
    /\ UNCHANGED <<schedulerVars, proxyVars, storeVars, request, rotator>>

RedisKeyShared(job_id) == <<"seen", 0>>

\* seen_urls._redis_key: job_id or 'global'
RedisKey(job_id) == <<"seen", job_id>>

\* seen_urls.is_seen: SISMEMBER of the normalized URL
IsSeen(r, url, job_id) == Normalize(url) \in r[RedisKey(job_id)].val

\* seen_urls.mark_seen: SADD of the normalized URL to the set of the scope;
\* the insert into the table seen_urls that follows is best-effort and
\* touches nothing that the model follows
MarkSeen(url, job_id) ==
    /\ Cardinality(marked) < MaxMarks
    /\ redis' = Sadd(redis, RedisKey(job_id), Normalize(url))
    /\ marked' = marked \cup {<<url, job_id>>}
    /\ UNCHANGED <<callers, streak, window_streak, since_failure, opened_ago>>
    /\ UNCHANGED notStore

\* incr_counter with the default amount
IncrCounter ==
    /\ redis[<<"counter", 0>>].val < MaxCounter
    /\ redis' = IncrBy(redis, <<"counter", 0>>, 1)
    /\ UNCHANGED <<callers, streak, window_streak, since_failure, opened_ago>>
    /\ UNCHANGED <<marked, notStore>>

\* cache_set with the default ttl
CacheSet ==
    /\ redis' = SetEx(redis, <<"cache", 0>>, 1, cache_ttl)
    /\ UNCHANGED <<callers, streak, window_streak, since_failure, opened_ago>>
    /\ UNCHANGED <<marked, notStore>>

\* one second passes: every key that expires is one second nearer to it, and
\* a key whose time is over is gone
Tick ==
    /\ redis' = [k \in Keys |->
                    IF redis[k].ttl = 1 THEN Absent(k)
                    ELSE IF redis[k].ttl > 1 THEN [redis[k] EXCEPT !.ttl = @ - 1]
                    ELSE redis[k]]
    /\ since_failure' = [p \in Proxies |->
                            IF since_failure[p] < cooldown_seconds
                            THEN since_failure[p] + 1 ELSE since_failure[p]]
    /\ opened_ago' = [p \in Proxies |->
                         IF opened_ago[p] >= 0 /\ opened_ago[p] < cooldown_seconds
                         THEN opened_ago[p] + 1 ELSE opened_ago[p]]
    /\ callers' = [c \in Callers |->
                      IF callers[c].pc \in {"inside", "crashed"} /\ callers[c].age < lock_ttl
                      THEN [callers[c] EXCEPT !.age = @ + 1, !.now = FALSE]
                      ELSE [callers[c] EXCEPT !.now = FALSE]]
    /\ UNCHANGED <<streak, window_streak>>
    /\ UNCHANGED <<marked, notStore>>

\* ------------------------------------------------------ the specification

\* polling and dispatching, every dispatch ending within the job timeout
NextPoll ==
    \/ \E s \in Schedulers : Start(s)
    \/ \E s \in Schedulers : ProcessJobs(s)
    \/ \E s \in Schedulers : StartJob(s)
    \/ \E s \in Schedulers : FinishPoll(s)
    \/ \E s \in Schedulers, t \in Tids, o \in Outcomes : WorkerExec(s, t, o)
    \/ \E s \in Schedulers, t \in Tids : WorkerWrite(s, t)
    \/ \E s \in Schedulers, t \in Tids : WorkerFinally(s, t)
    \/ \E j \in Jobs : RetryDue(j)

\* polling and dispatching, with dispatches that outlive the job timeout
NextWork ==
    \/ NextPoll
    \/ \E s \in Schedulers, t \in Tids : Expire(s, t)

\* the operator, process stops and database outages
NextOps ==
    \/ \E s \in Schedulers : Shutdown(s)
    \/ \E s \in Schedulers : Kill(s)
    \/ \E j \in Jobs : SoftDelete(j)
    \/ SetPauseFlag
    \/ DbDown
    \/ DbBack

Next == NextWork \/ NextOps

\* one process, one job, every operation and fault
Spec == Init /\ [][Next]_vars

\* several processes on one queue
SpecMulti == InitMulti /\ [][NextPoll]_vars

\* one process, several jobs
SpecJobs == InitJobs /\ [][NextWork]_vars

\* What the scheduling guarantees: the loop of run() polls again and again,
\* a started thread runs to its end, a due time arrives, a stopped process is
\* started again, and an outage ends. Nothing forces a fault, a timeout or
\* an operator action.
Fairness ==
    /\ \A s \in Schedulers :
          /\ WF_vars(Start(s))
          /\ WF_vars(ProcessJobs(s))
          /\ WF_vars(StartJob(s))
          /\ WF_vars(FinishPoll(s))
    /\ \A s \in Schedulers, t \in Tids :
          /\ WF_vars(\E o \in Outcomes : WorkerExec(s, t, o))
          /\ WF_vars(WorkerWrite(s, t))
          /\ WF_vars(WorkerFinally(s, t))
    /\ \A j \in Jobs : WF_vars(RetryDue(j))
    /\ WF_vars(DbBack)

InitOutage == \E m \in 1..MaxRetriesBound : Deployment(1, 1, m, MaxOutages, 0)

NextOutage ==
    \/ NextWork
    \/ DbDown
    \/ DbBack

\* one process that keeps running, one job, transient database outages, no
\* operator action
SpecOutage == InitOutage /\ [][NextOutage]_vars /\ Fairness

InitStops == \E m \in 1..MaxRetriesBound : Deployment(1, 1, m, 0, MaxDowns)

NextStops ==
    \/ NextWork
    \/ \E s \in Schedulers : Shutdown(s)
    \/ \E s \in Schedulers : Kill(s)

\* one process that is stopped and started again, one job, no operator action
SpecStops == InitStops /\ [][NextStops]_vars /\ Fairness

\* one process that keeps running, several jobs, no fault, no timeout and no
\* operator action
SpecLive == InitJobs /\ [][NextPoll]_vars /\ Fairness

\* a new job whose priority the operator chose on the slider
NewJobAt(m, p) == [NewJob(m) EXCEPT !.priority = p]

\* one process polling a queue of NumJobs new jobs of any priorities, no faults
InitOrder ==
    \E m \in 1..MaxRetriesBound, pr \in [Jobs -> Priorities] :
        /\ queue = [j \in Jobs |-> NewJobAt(m, pr[j])]
        /\ Processes(1, 0, 0)
        /\ ProxiesIdle
        /\ StoreIdle

\* one process, several jobs of several priorities, dispatches that may
\* outlive the job timeout
SpecOrder == InitOrder /\ [][NextWork]_vars

\* The scheduling when a crawl may hang: as Fairness, but nothing makes
\* execute_spider return.
FairnessHung ==
    /\ \A s \in Schedulers :
          /\ WF_vars(Start(s))
          /\ WF_vars(ProcessJobs(s))
          /\ WF_vars(StartJob(s))
          /\ WF_vars(FinishPoll(s))
    /\ \A s \in Schedulers, t \in Tids :
          /\ WF_vars(WorkerWrite(s, t))
          /\ WF_vars(WorkerFinally(s, t))
    /\ \A j \in Jobs : WF_vars(RetryDue(j))
    /\ WF_vars(DbBack)

NextSweep ==
    \/ NextOutage
    \/ SetPauseFlag

\* one process that keeps running, one job whose crawl may hang, transient
\* database outages and an operator who may pause the scheduler
SpecSweep == InitOutage /\ [][NextSweep]_vars /\ FairnessHung

\* every periodic task of run()
NextBeat ==
    \/ NextSweep
    \/ \E s \in Schedulers : LogStats(s)

\* one process that keeps running all its periodic tasks, paused or not,
\* through transient database outages
SpecBeat ==
    /\ InitOutage
    /\ [][NextBeat]_vars
    /\ Fairness
    /\ \A s \in Schedulers : WF_vars(LogStats(s))

\* The scheduling when an outage may last for ever: as Fairness, but nothing
\* brings the database back.
FairnessOutage ==
    /\ \A s \in Schedulers :
          /\ WF_vars(Start(s))
          /\ WF_vars(ProcessJobs(s))
          /\ WF_vars(StartJob(s))
          /\ WF_vars(FinishPoll(s))
    /\ \A s \in Schedulers, t \in Tids :
          /\ WF_vars(\E o \in Outcomes : WorkerExec(s, t, o))
          /\ WF_vars(WorkerWrite(s, t))
          /\ WF_vars(WorkerFinally(s, t))
    /\ \A j \in Jobs : WF_vars(RetryDue(j))

NextFailStop ==
    \/ NextOutage
    \/ \E s \in Schedulers : LogStats(s)

\* one process running all its periodic tasks on a database that may go away
\* and not come back
SpecFailStop == InitOutage /\ [][NextFailStop]_vars /\ FairnessOutage

\* a proxy table of any content, before any fetch: no scheduler, no request
\* in flight
InitFetch ==
    /\ proxies \in [Proxies -> {r \in ProxyRows : r.consecutive_failures = 0}]
    /\ in_use = [p \in Proxies |-> 0]
    /\ fetched = NoFetch
    /\ selected = 0
    /\ rotation_mode = "random"
    /\ SchedulerDeployment(0, 0, 1, 0, 0)
    /\ StoreIdle

NextFetch ==
    \/ FetchActiveProxies
    \/ FetchActiveProxiesSelector
    \/ \E p \in Proxies : CooldownElapses(p)
    \/ \E p \in Proxies : AttemptDue(p)

\* the two fetch_active_proxies on a proxy table of any content, as time passes
SpecFetch == InitFetch /\ [][NextFetch]_vars

NextProxy ==
    \/ AcquireProxy
    \/ \E p \in Proxies, success \in BOOLEAN : ReportProxyResult(p, success)
    \/ \E p \in Proxies : CooldownElapses(p)

\* crawl workers that acquire proxies of a new table and report their results
SpecProxy == Deployment(0, 0, 1, 0, 0) /\ [][NextProxy]_vars

NextStats ==
    \/ NextProxy
    \/ ResetStats

\* crawl workers that acquire proxies and report, and an operator who resets
\* the statistics
SpecStats == Deployment(0, 0, 1, 0, 0) /\ [][NextStats]_vars

\* proxies of any priorities, all usable, rotation_mode round_robin
InitRotate ==
    /\ \E pr \in [Proxies -> Priorities] :
          proxies = [p \in Proxies |-> [NewProxy EXCEPT !.priority = pr[p]]]
    /\ in_use = [p \in Proxies |-> 0]
    /\ fetched = NoFetch
    /\ selected = 0
    /\ rotation_mode = "round_robin"
    /\ SchedulerDeployment(0, 0, 1, 0, 0)
    /\ StoreIdle

NextRotate ==
    \/ AcquireProxy
    \/ \E p \in Proxies : ReportProxyResult(p, TRUE)

\* crawl workers that acquire proxies in mode round_robin and whose requests
\* all succeed: every proxy stays usable
SpecRotate == InitRotate /\ [][NextRotate]_vars

NextBreaker ==
    \/ \E p \in Proxies, success \in BOOLEAN : ReportResult(p, success)
    \/ Tick

\* crawl workers that report the outcome of their requests to the breakers
\* of the coordination store, while time passes
SpecBreaker == Deployment(0, 0, 1, 0, 0) /\ [][NextBreaker]_vars

\* the coordination store right after max_failures failures in a row were
\* reported for each proxy of `open`, and none for the others
BreakersOpened(open) ==
    /\ redis = [k \in Keys |->
                   IF k[1] = "open" /\ k[2] \in open
                   THEN [val |-> 1, ttl |-> cooldown_seconds]
                   ELSE IF k[1] = "fails" /\ k[2] \in open
                   THEN [val |-> max_failures, ttl |-> cooldown_seconds]
                   ELSE Absent(k)]
    /\ callers = [c \in Callers |-> NoCaller]
    /\ streak = [p \in Proxies |-> IF p \in open THEN max_failures ELSE 0]
    /\ window_streak = [p \in Proxies |-> IF p \in open THEN max_failures ELSE 0]
    /\ since_failure = [p \in Proxies |-> IF p \in open THEN 0 ELSE cooldown_seconds]
    /\ opened_ago = [p \in Proxies |-> IF p \in open THEN 0 ELSE -1]
    /\ marked = {}

\* a table of proxies that are active or not and have failed max_failures
\* times in a row or not, some of them with an open breaker
InitSelect ==
    /\ proxies \in [Proxies -> {r \in ProxyRows :
                                   /\ r.consecutive_failures \in {0, max_failures}
                                   /\ r.cooldown_until = "null"
                                   /\ r.circuit_breaker_status = "closed"
                                   /\ r.circuit_breaker_next_attempt = "null"}]
    /\ in_use = [p \in Proxies |-> 0]
    /\ fetched = NoFetch
    /\ selected = 0
    /\ rotation_mode = "random"
    /\ \E open \in SUBSET Proxies : BreakersOpened(open)
    /\ request = "none"
    /\ compared = NoComparison
    /\ rotator = NoCall
    /\ SchedulerDeployment(0, 0, 1, 0, 0)

NextLock ==
    \/ \E c \in Callers : LockAcquire(c)
    \/ \E c \in Callers : LockLeave(c)
    \/ \E c \in Callers : LockRelease(c)
    \/ \E c \in Callers : LockCrash(c)
    \/ TimePasses
    \/ Tick

\* callers of distributed_lock on one name, some of which die inside the
\* guarded section, while time passes
SpecLock == Deployment(0, 0, 1, 0, 0) /\ [][NextLock]_vars

NextStore ==
    \/ \E p \in Proxies : ReportResult(p, FALSE)
    \/ \E url \in {u \in CrawledUrls : u.query = <<>> /\ u.scheme = Lower(u.scheme)} :
          MarkSeen(url, 0)
    \/ IncrCounter
    \/ CacheSet
    \/ \E c \in Callers : LockAcquire(c)
    \/ Tick

\* processes that create keys with every primitive of the coordination
\* store, while time passes
SpecStore == Deployment(0, 0, 1, 0, 0) /\ [][NextStore]_vars

NextSeen == \E url \in CrawledUrls, job_id \in JobIds : MarkSeen(url, job_id)

\* crawl workers of several jobs that mark the URLs they visit
SpecSeen == Deployment(0, 0, 1, 0, 0) /\ [][NextSeen]_vars

\* the country codes a proxy row holds and a caller asks for ("null": none)
Countries == {"null", "FR", "DE"}

\* the SELECT of get_next_proxy: the active proxies not in failed_proxies
\* whose country_code is the one asked for, or all of these when no country
\* is asked for (country_code = NULL is never true)
RotatorRows(px, failed, country) ==
    {p \in Proxies : /\ px[p].active
                     /\ p \notin failed
                     /\ (country = "null" \/ px[p].country_code = country)}

\* the owner of the rotator records a proxy that failed
MarkProxyFailed(p) ==
    /\ rotator.pc # "query"
    /\ p \notin rotator.failed_proxies
    /\ rotator' = [rotator EXCEPT !.failed_proxies = @ \cup {p}]
    /\ UNCHANGED <<schedulerVars, proxyVars, storeVars, request, compared>>

\* get_next_proxy is called
GetNextProxy(country) ==
    /\ rotator.pc # "query"
    /\ Now(proxies) <= MaxClock
    /\ rotator' = [rotator EXCEPT !.pc = "query", !.country = country,
                                  !.depth = 1, !.result = 0]
    /\ UNCHANGED <<schedulerVars, proxyVars, storeVars, request, compared>>

\* one frame of get_next_proxy: the SELECT; with no row, failed_proxies is
\* cleared and the method calls itself (RecursionError at the interpreter's
\* limit); with rows, one of positive weight is drawn (ValueError when
\* every weight is zero), its last_used_at is set and it is returned
GetNextProxyFrame ==
    /\ rotator.pc = "query"
    /\ LET rows == RotatorRows(proxies, rotator.failed_proxies, rotator.country)
           drawn == {p \in rows : proxies[p].success_rate.num > 0}
       IN  IF rows = {}
           THEN /\ rotator' = IF rotator.depth = RecursionLimit
                              THEN [rotator EXCEPT !.pc = "raised", !.failed_proxies = {},
                                                   !.depth = 0]
                              ELSE [rotator EXCEPT !.failed_proxies = {}, !.depth = @ + 1]
                /\ UNCHANGED proxies
           ELSE IF drawn = {}
           THEN /\ rotator' = [rotator EXCEPT !.pc = "raised", !.depth = 0]
                /\ UNCHANGED proxies
           ELSE \E p \in drawn :
                   /\ proxies' = [proxies EXCEPT ![p].last_used_at = Now(proxies)]
                   /\ rotator' = [rotator EXCEPT !.pc = "returned", !.result = p,
                                                 !.depth = 0]
    /\ UNCHANGED <<in_use, fetched, selected, rotation_mode>>
    /\ UNCHANGED <<schedulerVars, storeVars, request, compared>>

\* a table of proxies that are active or not, each of some country or none
InitRotator ==
    /\ \E a \in [Proxies -> BOOLEAN], cc \in [Proxies -> Countries] :
          proxies = [p \in Proxies |-> [NewProxy EXCEPT !.active = a[p],
                                                        !.country_code = cc[p]]]
    /\ in_use = [p \in Proxies |-> 0]
    /\ fetched = NoFetch
    /\ selected = 0
    /\ rotation_mode = "random"
    /\ SchedulerDeployment(0, 0, 1, 0, 0)
    /\ StoreIdle

NextRotator ==
    \/ \E p \in Proxies : MarkProxyFailed(p)
    \/ \E country \in Countries : GetNextProxy(country)
    \/ GetNextProxyFrame

\* a crawl worker that asks its ProxyRotator for proxies; a call under way
\* runs on
SpecRotator == InitRotator /\ [][NextRotator]_vars /\ WF_vars(GetNextProxyFrame)

\* two URLs to compare
InitNormalize ==
    /\ SchedulerDeployment(0, 0, 1, 0, 0)
    /\ ProxiesIdle
    /\ KeysIdle
    /\ \E a \in Urls, b \in Urls : compared = [NoComparison EXCEPT !.a = a, !.b = b]

\* a crawl worker that normalizes two URLs
SpecNormalize == InitNormalize /\ [][NormalizeBoth]_vars

NextSelect ==
    \/ \E dbOk \in BOOLEAN, storeOk \in BOOLEAN, usageOk \in BOOLEAN :
          SelectProxy(dbOk, storeOk, usageOk)
    \/ \E no_proxy \in BOOLEAN, dbOk \in BOOLEAN, storeOk \in BOOLEAN, usageOk \in BOOLEAN :
          ProcessRequest(no_proxy, dbOk, storeOk, usageOk)
    \/ \E dbOk \in BOOLEAN, usageOk \in BOOLEAN : AcquireProxyWith(dbOk, usageOk)
    \/ Tick

\* crawl workers and the middleware that select proxies while the breakers
\* cool down and the database or the coordination store may fail at any call
SpecSelect == InitSelect /\ [][NextSelect]_vars

\* ================================================================ claims

\* the step in which process s runs process_jobs up to its for loop
PollStep(s) == mainpc[s] = "sleep" /\ mainpc'[s] = "process_jobs"

\* the processes that track job j in running_jobs
Holders(j) == {s \in Schedulers : running_jobs[s][j] # 0}

\* C1: no job is held in flight by two scheduler processes at the same time.
C1_NoDoubleClaim == \A j \in Jobs : Cardinality(Holders(j)) <= 1

\* C2: when the m-th dispatch of a job with max_retries = m ends with a
\* non-zero exit like the ones before it, the outcome write leaves the job
\* failed with retry_count = m.
C2_FailedAfterMaxRetries ==
    [][\A s \in Schedulers, t \in Tids :
         LET j == threads[s][t].job IN
         (/\ WorkerWrite(s, t)
          /\ threads[s][t].result = "nonzero"
          /\ failures[j] = queue[j].max_retries
          /\ dbUp)
         => (/\ queue'[j].status = "failed"
             /\ queue'[j].retry_count = queue[j].max_retries)]_vars

\* C3: the outcome write of a failed dispatch of a job with
\* retry_count = r < max_retries leaves the row pending with retry_count = r+1,
\* last_error set and next_retry_at in the future.
C3_RetryBacksOff ==
    [][\A s \in Schedulers, t \in Tids :
         LET j == threads[s][t].job IN
         (/\ WorkerWrite(s, t)
          /\ threads[s][t].result = "nonzero"
          /\ queue[j].retry_count < queue[j].max_retries
          /\ dbUp)
         => (/\ queue'[j].status = "pending"
             /\ queue'[j].retry_count = queue[j].retry_count + 1
             /\ queue'[j].last_error # ""
             /\ queue'[j].next_retry_at = "future")]_vars

\* C4: a job whose status is failed is never moved back to pending or
\* in_progress.
C4_FailedIsTerminal ==
    [][\A j \in Jobs :
         queue[j].status = "failed"
         => queue'[j].status \notin {"pending", "in_progress"}]_vars

\* the eligibility of the data model: pending, retries left, due, not deleted
Eligible(q, j) ==
    /\ q[j].status = "pending"
    /\ q[j].retry_count < q[j].max_retries
    /\ q[j].next_retry_at \in {"null", "past"}
    /\ ~q[j].deleted

\* C5: every job a poll cycle selects for in_progress is eligible when it is
\* selected: pending, retry_count < max_retries, due and not soft-deleted.
C5_OnlyEligibleClaimed ==
    [][\A s \in Schedulers :
         PollStep(s)
         => \A i \in 1..Len(pending_jobs'[s]) :
                Eligible(queue', pending_jobs'[s][i].id)]_vars

\* the worker threads of process s that are inside execute_spider
Executing(s) == {t \in Tids : threads[s][t].pc = "exec"}

\* C6: in one process, never more than max_concurrent_jobs crawl workers
\* execute at the same time.
C6_ConcurrencyLimit ==
    \A s \in Schedulers : Cardinality(Executing(s)) <= max_concurrent_jobs

\* C7: a poll cycle that runs while the durable pause flag is false selects
\* the eligible jobs for claiming, also after an earlier poll has seen the
\* flag true.
C7_ResumesWhenFlagCleared ==
    [][\A s \in Schedulers :
         (/\ PollStep(s)
          /\ dbUp /\ ~dbPaused
          /\ Tracked(running_jobs[s]) = {}
          /\ \E j \in Jobs : Selectable(queue, j))
         => pending_jobs'[s] # <<>>]_vars

\* C8: a poll cycle that runs while the durable pause flag reads true claims
\* nothing and changes neither the row nor the in-flight entry nor the worker
\* of any job.
C8_PausedPollChangesNothing ==
    [][\A s \in Schedulers :
         (PollStep(s) /\ dbUp /\ dbPaused)
         => (/\ queue' = queue
             /\ running_jobs' = running_jobs
             /\ threads' = threads
             /\ pending_jobs'[s] = <<>>)]_vars

\* C8 witness: a poll has just seen the flag true while a job that the
\* query would select is still tracked in flight.
C8_Witness ==
    \E s \in Schedulers, j \in Jobs :
        /\ mainpc[s] = "process_jobs"
        /\ scheduler_paused[s]
        /\ dbUp /\ dbPaused
        /\ pending_jobs[s] = <<>>
        /\ running_jobs[s][j] # 0
        /\ Selectable(queue, j)

\* C9: while the process keeps running and outages end, every job that is
\* in_progress eventually leaves in_progress.
C9_InProgressEventuallyLeaves ==
    \A j \in Jobs :
        (queue[j].status = "in_progress") ~> (queue[j].status # "in_progress")

\* C10: a job that is in_progress while its scheduler process is down is,
\* once a scheduler runs again, eventually dispatched again or taken out
\* of in_progress.
C10_RecoveredAfterRestart ==
    \A j \in Jobs :
        (queue[j].status = "in_progress" /\ \A s \in Schedulers : ~is_running[s])
        ~> (\/ queue[j].status # "in_progress"
            \/ \E s \in Schedulers, t \in Tids : threads[s][t].job = j)

\* C11: every pending job of a running, unpaused scheduler eventually reaches
\* a terminal status (done or failed), whatever the outcomes of its dispatches.
C11_EventuallyTerminal ==
    \A j \in Jobs :
        (queue[j].status = "pending") ~> (queue[j].status \in {"done", "failed"})

\* C12: the outcome write of a dispatch whose crawl worker exited with code 0
\* leaves the job done, and the outcome write of a dispatch that exited
\* non-zero or timed out never turns the job's status into done.
C12_ExitCodeDecidesDone ==
    [][\A s \in Schedulers, t \in Tids :
         LET j == threads[s][t].job IN
         WorkerWrite(s, t)
         => /\ threads[s][t].result = "ok" => queue'[j].status = "done"
            /\ (threads[s][t].result # "ok" /\ queue[j].status # "done")
                   => queue'[j].status # "done"]_vars

\* C13: the outcome write of a dispatch that ran into the job timeout leaves
\* the job failed, whatever its retry_count and max_retries are, and never
\* pending.
C13_TimeoutIsNotRetried ==
    [][\A s \in Schedulers, t \in Tids :
         LET j == threads[s][t].job IN
         (WorkerWrite(s, t) /\ threads[s][t].result = "timeout")
         => queue'[j].status = "failed"]_vars

\* the order of the data model: priority, then retry_count, then id
ClaimOrder(q, a, b) ==
    \/ q[a].priority < q[b].priority
    \/ /\ q[a].priority = q[b].priority
       /\ q[a].retry_count < q[b].retry_count
    \/ /\ q[a].priority = q[b].priority
       /\ q[a].retry_count = q[b].retry_count
       /\ a < b

\* C14: a poll cycle of a process with k free slots selects the first k
\* eligible jobs in (priority, retry_count, id) order: every selected job is
\* eligible, they are selected in that order, none is left out while a slot
\* is free, and no eligible job left out sorts before a selected one.
C14_FirstEligibleInOrder ==
    [][\A s \in Schedulers :
         PollStep(s)
         => LET rows == pending_jobs'[s]
                claimed == {rows[i].id : i \in 1..Len(rows)}
                eligible == {j \in Jobs : Eligible(queue', j)}
                k == max_concurrent_jobs - Cardinality(Tracked(running_jobs'[s]))
            IN  /\ claimed \subseteq eligible
                /\ \A i, n \in 1..Len(rows) :
                      i < n => ClaimOrder(queue', rows[i].id, rows[n].id)
                /\ \A a \in eligible \ claimed :
                      /\ Len(rows) >= k
                      /\ \A b \in claimed : ClaimOrder(queue', b, a)]_vars

\* the worker of process s for job j has not come back from execute_spider
Unresolved(s, j) ==
    \E t \in Tids : threads[s][t].job = j /\ threads[s][t].pc = "exec"

\* C15: a job that is in running_jobs of a process past the job timeout, its
\* worker still inside execute_spider, is eventually marked failed and removed
\* from running_jobs by that process (unless the worker resolves first).
C15_ExpiredEventuallySwept ==
    \A s \in Schedulers, j \in Jobs :
        (/\ running_jobs[s][j] # 0
         /\ threads[s][running_jobs[s][j]].expired
         /\ Unresolved(s, j))
        ~> (\/ running_jobs[s][j] = 0 /\ queue[j].status = "failed"
            \/ ~Unresolved(s, j))

\* C16: once a scheduler process runs, a liveness timestamp is eventually
\* stored under the settings key scheduler_last_heartbeat.
C16_HeartbeatWritten ==
    (\E s \in Schedulers : is_running[s]) ~> (last_heartbeat # "absent")

\* C17: a scheduler process that runs while the database is unreachable
\* eventually stops, unless the database comes back: no run of failures goes
\* on for ever with the process still polling.
C17_FailStop ==
    (~dbUp /\ \E s \in Schedulers : is_running[s])
    ~> (dbUp \/ \A s \in Schedulers : ~is_running[s])

C19_ThresholdSetsCooldown ==
    [][\A p \in Proxies :
         (/\ ReportProxyResult(p, FALSE)
          /\ proxies'[p].consecutive_failures = max_failures)
         => (/\ p \notin UsableProxies(proxies')
             /\ proxies'[p].cooldown_until = "future")]_vars

\* C20: an active proxy that reached the threshold and whose cooldown has
\* elapsed is one acquire_proxy may return, with no success report first.
C20_SelectableAfterCooldown ==
    \A p \in Proxies :
        (/\ proxies[p].active
         /\ proxies[p].consecutive_failures >= max_failures
         /\ proxies[p].cooldown_until = "past")
        => p \in UsableProxies(proxies)

\* C24: the success_rate of every proxy row is a ratio between 0 and 1.
C24_SuccessRateBounded ==
    \A p \in Proxies :
        /\ 0 <= proxies[p].success_rate.num
        /\ proxies[p].success_rate.num <= proxies[p].success_rate.den

\* C26: in mode round_robin, while all the M >= 2 proxies stay usable, a
\* selection never returns the proxy the selection before it returned (M
\* consecutive selections return M distinct proxies).
C26_RoundRobinRotates ==
    [][(/\ AcquireProxy
        /\ rotation_mode = "round_robin"
        /\ UsableProxies(proxies) = Proxies
        /\ selected # 0)
       => selected' # selected]_vars


\* C21: a breaker that was opened and whose cooldown has run out opens again at the first failure that is reported then.
C21_HalfOpenFailureReopens ==
    [][\A p \in Proxies :
          (/\ ReportResult(p, FALSE)
           /\ opened_ago[p] = cooldown_seconds
           /\ ~IsOpen(redis, p))
          => IsOpen(redis', p)]_vars

\* C22: a breaker reads open at the report that is the max_failures-th failure since the last success.
C22_OpensAtMaxFailures ==
    [][\A p \in Proxies :
          (ReportResult(p, FALSE) /\ streak'[p] = max_failures) => IsOpen(redis', p)]_vars

\* C22, amended: a breaker reads open exactly during the cooldown_seconds after a report that was the max_failures-th or a later failure of a run of failures, each within cooldown_seconds of the one before and with no success in between.
C22_OpenDuringCooldownOfWindow ==
    \A p \in Proxies :
        IsOpen(redis, p) <=> (opened_ago[p] >= 0 /\ opened_ago[p] < cooldown_seconds)

\* C22: a breaker that was opened has closed by the passing of time alone.
C22_Witness ==
    \E p \in Proxies : opened_ago[p] = cooldown_seconds /\ ~IsOpen(redis, p)


\* C23: the proxy that select_proxy returns is one whose breaker did not read open when the selection was made.
C23_NeverReturnsOpenBreaker ==
    [][(selected' # 0 /\ IsOpen(redis, selected')) =>
          \A dbOk \in BOOLEAN, storeOk \in BOOLEAN, usageOk \in BOOLEAN :
             ~SelectProxyCall(dbOk, storeOk, usageOk)]_vars

\* C23: select_proxy has returned a proxy after the filter had removed another fetched proxy, whose breaker is open.
C23_Witness ==
    /\ fetched.by = "select_proxy"
    /\ selected # 0
    /\ \E q \in ActiveProxiesSelector(proxies) \ fetched.ids :
          IsOpen(redis, q) /\ opened_ago[q] >= 1

C27_OnlyHolderDeletes ==
    [][\A c \in Callers :
          (LockRelease(c) /\ redis[LockKey].ttl # 0 /\ redis'[LockKey].ttl = 0)
          => redis[LockKey].val = callers[c].token]_vars

\* C28: at most one caller is inside its guarded section with the lock granted and its ttl not yet over.
C28_MutualExclusionWithinTtl ==
    Cardinality({c \in Callers : callers[c].pc = "inside" /\ callers[c].age < lock_ttl}) <= 1

\* C29: the lock of a caller that died inside its guarded section is held by that caller exactly until its ttl is over.
C29_HeldUntilTtlElapsed ==
    \A c \in Callers :
        callers[c].pc = "crashed" =>
            ((redis[LockKey].ttl # 0 /\ redis[LockKey].val = callers[c].token) <=> callers[c].age < lock_ttl)


\* C30: every key that exists in the coordination store has an expiry.
C30_EveryKeyExpires == \A k \in Keys : redis[k].ttl # -1


\* two strings are the same but for the case of their letters
SameIgnoringCase(x, y) ==
    /\ Len(x) = Len(y)
    /\ \A i \in DOMAIN x :
          \/ x[i] = y[i]
          \/ x[i] \in 65..90 /\ y[i] = x[i] + 32
          \/ y[i] \in 65..90 /\ x[i] = y[i] + 32

\* two query strings hold the same parameters, each as often
SameParams(q, r) ==
    /\ Len(q) = Len(r)
    /\ \A i \in DOMAIN q :
          Cardinality({k \in DOMAIN q : q[k] = q[i]}) = Cardinality({k \in DOMAIN r : r[k] = q[i]})

\* C31: is_seen is true for a URL and a scope exactly when a URL with the same normal form was marked in that scope before.
C31_SeenIffMarkedInScope ==
    \A u \in CrawledUrls, job_id \in JobIds :
        IsSeen(redis, u, job_id)
          <=> \E m \in marked : m[2] = job_id /\ Normalize(m[1]) = Normalize(u)

\* C31: a URL reads seen in the scope in which another spelling of it was marked, and not seen in another scope.
C31_Witness ==
    \E m \in marked, u \in CrawledUrls, job_id \in JobIds :
        /\ u # m[1]
        /\ IsSeen(redis, u, m[2])
        /\ job_id # m[2]
        /\ ~IsSeen(redis, u, job_id)

\* C32: two URLs that differ only in the case of scheme or host, in the order of the query parameters or in the fragment have the same normal form; two URLs whose paths differ in case have different normal forms.
C32_NormalizeEquates ==
    compared.done =>
        /\ (/\ SameIgnoringCase(compared.a.scheme, compared.b.scheme)
            /\ SameIgnoringCase(compared.a.netloc, compared.b.netloc)
            /\ compared.a.path = compared.b.path
            /\ SameParams(compared.a.query, compared.b.query))
           => compared.na = compared.nb
        /\ (/\ compared.a.path # compared.b.path
            /\ SameIgnoringCase(compared.a.path, compared.b.path))
           => compared.na # compared.nb

\* C32: two URLs that differ in the case of scheme and host, in the order of the parameters and in the fragment have been given the same normal form.
C32_Witness ==
    /\ compared.done
    /\ compared.a.scheme # compared.b.scheme
    /\ compared.a.netloc # compared.b.netloc
    /\ compared.a.query # compared.b.query
    /\ compared.a.fragment # compared.b.fragment
    /\ SameParams(compared.a.query, compared.b.query)
    /\ compared.na = compared.nb


\* C33: the outcome write of a dispatch that ended with a non-zero exit before the job timeout, for a job with retry_count < max_retries, leaves the job pending, whatever the crawl worker wrote to stderr.
C33_RetryIgnoresStderr ==
    [][\A s \in Schedulers, t \in Tids :
         LET j == threads[s][t].job IN
         (/\ WorkerWrite(s, t)
          /\ threads[s][t].result \in {"nonzero", "nonzero_timeout_text"}
          /\ threads[s][t].retry_count < queue[j].max_retries
          /\ queue[j].retry_count < queue[j].max_retries
          /\ dbUp)
         => queue'[j].status = "pending"]_vars


\* C34: a worker thread that finishes removes from running_jobs only the entry that was created for its own run.
C34_WorkerRemovesOwnEntry ==
    [][\A s \in Schedulers, t \in Tids :
         LET j == threads[s][t].job IN
         (WorkerFinally(s, t) /\ running_jobs[s][j] \notin {0, t})
         => running_jobs'[s][j] = running_jobs[s][j]]_vars


\* C35: a job whose status is done keeps the status done.
C35_DoneIsAbsorbing ==
    [][\A j \in Jobs : queue[j].status = "done" => queue'[j].status = "done"]_vars

\* C36: the retry_count of a job never exceeds its max_retries.
C36_RetryCountBounded == \A j \in Jobs : queue[j].retry_count <= queue[j].max_retries


\* C37: when a worker thread is started for a job, the row of the job is in_progress.
C37_StartedOnlyInProgress ==
    [][\A s \in Schedulers :
         StartJob(s) => queue'[Head(pending_jobs[s]).id].status = "in_progress"]_vars


\* C38: after a success report on a proxy with total_requests > 0, success_rate is successful_requests divided by total_requests, all three as stored after the report.
C38_SuccessRateIsRatio ==
    [][\A p \in Proxies :
         (ReportProxyResult(p, TRUE) /\ proxies[p].total_requests > 0)
         => proxies'[p].success_rate.num * proxies'[p].total_requests
              = proxies'[p].successful_requests * proxies'[p].success_rate.den]_vars

\* C39: every call of get_next_proxy comes to an end by returning: a proxy,
\* or none when no active proxy matches the country
C39_GetNextProxyReturns == (rotator.pc = "query") ~> (rotator.pc = "returned")

\* C40: a caller to whom distributed_lock yielded False leaves the lock key
\* as it is when its context ends.
C40_RefusedCallerLeavesKey ==
    [][redis'[LockKey] # redis[LockKey] =>
          \A c \in Callers : ~(LockRelease(c) /\ ~callers[c].yielded)]_vars

====
